---------------------------- MODULE Spec2Model ----------------------------
(***************************************************************************)
(* The execution-trace records of package experiment and the classifier    *)
(* CheckException: the transaction record with its sequence of trace       *)
(* pointers, the traces with their step logs, and the mapping of a Go      *)
(* error to (message, exception kind).                                     *)
(*                                                                         *)
(* A Go string is modelled as the sequence of its characters, so that      *)
(* equality, prefixes and the regular expressions of CheckException are    *)
(* computed on the text itself.  A pointer is the allocation number of the *)
(* object it refers to, and 0 is nil.                                      *)
(***************************************************************************)
EXTENDS Integers, Sequences, FiniteSets, TLC

(***************************************************************************)
(* Bounds of the model.                                                    *)
(***************************************************************************)
\* Longest detail text put after (or instead of) a known message.
MaxDetail == 2
\* Most traces allocated for one record.
MaxTraces == 2
\* Most steps appended to one trace.
MaxSteps == 2

(***************************************************************************)
(* Exception kinds (the iota block).                                       *)
(***************************************************************************)
NoException == 0
ExplicitRevert == 1
DepositOutOfGas == 2
RunOutOfGas == 3
CallStackOverflow == 4
DataStackUnderflow == 5
DataStackOverflow == 6
InvalidJumpDestination == 7
InvalidInstruction == 8
PrecompiledCallError == 9
InsufficientBalance == 10
WritePermissionViolation == 11
ReturnDataOutOfBound == 12
ContractAddressCollision == 13
MaxCodeSizeExceeded == 14
GasUintOverflow == 15
EmptyCode == 16

(***************************************************************************)
(* The string literals of CheckException.                                  *)
(***************************************************************************)
\* "evm: execution reverted"
MsgExecutionReverted ==
    << "e","v","m",":"," ","e","x","e","c","u","t","i","o","n"," ","r","e",
       "v","e","r","t","e","d" >>

\* "contract creation code storage out of gas"
MsgCodeStoreOutOfGas ==
    << "c","o","n","t","r","a","c","t"," ","c","r","e","a","t","i","o","n",
       " ","c","o","d","e"," ","s","t","o","r","a","g","e"," ","o","u","t",
       " ","o","f"," ","g","a","s" >>

\* "out of gas"
MsgOutOfGas ==
    << "o","u","t"," ","o","f"," ","g","a","s" >>

\* "max call depth exceeded"
MsgDepth ==
    << "m","a","x"," ","c","a","l","l"," ","d","e","p","t","h"," ","e","x",
       "c","e","e","d","e","d" >>

\* The literal part of the pattern "^stack underflow .+$" (it ends with a space).
ReStackUnderflow ==
    << "s","t","a","c","k"," ","u","n","d","e","r","f","l","o","w"," " >>

\* The literal part of the pattern "^stack limit reached .+$" (it ends with a space).
ReStackLimit ==
    << "s","t","a","c","k"," ","l","i","m","i","t"," ","r","e","a","c","h",
       "e","d"," " >>

\* The literal part of the pattern "^invalid jump destination .+$" (it ends with a space).
ReInvalidJump ==
    << "i","n","v","a","l","i","d"," ","j","u","m","p"," ","d","e","s","t",
       "i","n","a","t","i","o","n"," " >>

\* The literal part of the pattern "^invalid opcode .+$" (it ends with a space).
ReInvalidOpcode ==
    << "i","n","v","a","l","i","d"," ","o","p","c","o","d","e"," " >>

\* "insufficient balance for transfer"
MsgInsufficientBalance ==
    << "i","n","s","u","f","f","i","c","i","e","n","t"," ","b","a","l","a",
       "n","c","e"," ","f","o","r"," ","t","r","a","n","s","f","e","r" >>

\* "evm: write protection"
MsgWriteProtection ==
    << "e","v","m",":"," ","w","r","i","t","e"," ","p","r","o","t","e","c",
       "t","i","o","n" >>

\* "evm: return data out of bounds"
MsgReturnDataOutOfBounds ==
    << "e","v","m",":"," ","r","e","t","u","r","n"," ","d","a","t","a"," ",
       "o","u","t"," ","o","f"," ","b","o","u","n","d","s" >>

\* "contract address collision"
MsgContractAddressCollision ==
    << "c","o","n","t","r","a","c","t"," ","a","d","d","r","e","s","s"," ",
       "c","o","l","l","i","s","i","o","n" >>

\* "evm: max code size exceeded"
MsgMaxCodeSizeExceeded ==
    << "e","v","m",":"," ","m","a","x"," ","c","o","d","e"," ","s","i","z",
       "e"," ","e","x","c","e","e","d","e","d" >>

\* "gas uint64 overflow"
MsgGasUintOverflow ==
    << "g","a","s"," ","u","i","n","t","6","4"," ","o","v","e","r","f","l",
       "o","w" >>

\* "empty call code"
MsgEmptyCallCode ==
    << "e","m","p","t","y"," ","c","a","l","l"," ","c","o","d","e" >>

(***************************************************************************)
(* Go values.                                                              *)
(***************************************************************************)
\* An error value: nil, or an error whose Error() is text.
NilError == [present |-> FALSE, text |-> <<>>]
NewError(text) == [present |-> TRUE, text |-> text]

\* The line break, the one character "." does not match (no s flag).
LineBreak == "\n"

\* Whether the pattern element "." matches the character c.
DotMatches(c) == c # LineBreak

\* As FindAllString, with "." matching the line break too (flag s).
FindAllStringDotAll(literal, s) ==
    IF /\ Len(s) > Len(literal)
       /\ SubSeq(s, 1, Len(literal)) = literal
    THEN << s >>
    ELSE << >>

\* As FindAllString, with ".*" in the place of ".+".
FindAllStringStar(literal, s) ==
    IF /\ Len(s) >= Len(literal)
       /\ SubSeq(s, 1, Len(literal)) = literal
       /\ \A i \in (Len(literal) + 1)..Len(s) : DotMatches(s[i])
    THEN << s >>
    ELSE << >>

\* As FindAllString, with the literal part of the pattern lost ("^.+$").
FindAllStringAnyLine(literal, s) ==
    IF /\ Len(s) > 0
       /\ \A i \in 1..Len(s) : DotMatches(s[i])
    THEN << s >>
    ELSE << >>

(***************************************************************************)
(* regexp.MustCompile("^" + literal + ".+$").FindAllString(s, -1): the     *)
(* matches of the pattern in s.  Without the m flag "^" and "$" match at   *)
(* the two ends of the text only, so the one possible match is s itself:   *)
(* s begins with the literal, and what follows is one or more characters,  *)
(* none of them a line break.                                              *)
(***************************************************************************)
FindAllString(literal, s) ==
    IF /\ Len(s) > Len(literal)
       /\ SubSeq(s, 1, Len(literal)) = literal
       /\ \A i \in (Len(literal) + 1)..Len(s) : DotMatches(s[i])
    THEN << s >>
    ELSE << >>

\* As SwitchKind, with the kinds of the last two cases exchanged.
SwitchKindSwapped(text) ==
    IF text = MsgExecutionReverted THEN ExplicitRevert
    ELSE IF text = MsgCodeStoreOutOfGas THEN DepositOutOfGas
    ELSE IF text = MsgOutOfGas THEN RunOutOfGas
    ELSE IF text = MsgDepth THEN CallStackOverflow
    ELSE IF Len(FindAllString(ReStackUnderflow, text)) > 0
         THEN DataStackUnderflow
    ELSE IF Len(FindAllString(ReStackLimit, text)) > 0
         THEN DataStackOverflow
    ELSE IF Len(FindAllString(ReInvalidJump, text)) > 0
         THEN InvalidJumpDestination
    ELSE IF Len(FindAllString(ReInvalidOpcode, text)) > 0
         THEN InvalidInstruction
    ELSE IF text = MsgInsufficientBalance THEN InsufficientBalance
    ELSE IF text = MsgWriteProtection THEN WritePermissionViolation
    ELSE IF text = MsgReturnDataOutOfBounds THEN ReturnDataOutOfBound
    ELSE IF text = MsgContractAddressCollision THEN ContractAddressCollision
    ELSE IF text = MsgMaxCodeSizeExceeded THEN MaxCodeSizeExceeded
    ELSE IF text = MsgGasUintOverflow THEN EmptyCode
    ELSE IF text = MsgEmptyCallCode THEN GasUintOverflow
    ELSE PrecompiledCallError

(***************************************************************************)
(* The switch of CheckException on err.Error(): the cases are tried in the *)
(* order written and the first true one decides.                           *)
(***************************************************************************)
SwitchKind(text) ==
    IF text = MsgExecutionReverted THEN ExplicitRevert
    ELSE IF text = MsgCodeStoreOutOfGas THEN DepositOutOfGas
    ELSE IF text = MsgOutOfGas THEN RunOutOfGas
    ELSE IF text = MsgDepth THEN CallStackOverflow
    ELSE IF Len(FindAllString(ReStackUnderflow, text)) > 0
         THEN DataStackUnderflow
    ELSE IF Len(FindAllString(ReStackLimit, text)) > 0
         THEN DataStackOverflow
    ELSE IF Len(FindAllString(ReInvalidJump, text)) > 0
         THEN InvalidJumpDestination
    ELSE IF Len(FindAllString(ReInvalidOpcode, text)) > 0
         THEN InvalidInstruction
    ELSE IF text = MsgInsufficientBalance THEN InsufficientBalance
    ELSE IF text = MsgWriteProtection THEN WritePermissionViolation
    ELSE IF text = MsgReturnDataOutOfBounds THEN ReturnDataOutOfBound
    ELSE IF text = MsgContractAddressCollision THEN ContractAddressCollision
    ELSE IF text = MsgMaxCodeSizeExceeded THEN MaxCodeSizeExceeded
    ELSE IF text = MsgGasUintOverflow THEN GasUintOverflow
    ELSE IF text = MsgEmptyCallCode THEN EmptyCode
    ELSE PrecompiledCallError

\* As CheckException, without the test for nil: a nil error falls to the
\* default case.
CheckExceptionNoNilTest(e) ==
    [exception |-> e.text, kind |-> SwitchKind(e.text)]

\* As CheckException, returning the kind alone and no message.
CheckExceptionNoMessage(e) ==
    IF ~e.present
    THEN [exception |-> << >>, kind |-> NoException]
    ELSE [exception |-> << >>, kind |-> SwitchKind(e.text)]

(***************************************************************************)
(* CheckException(err): the pair (exception, kind) it returns.             *)
(***************************************************************************)
CheckException(e) ==
    IF ~e.present
    THEN [exception |-> << >>, kind |-> NoException]
    ELSE [exception |-> e.text, kind |-> SwitchKind(e.text)]

(***************************************************************************)
(* State.                                                                  *)
(***************************************************************************)
VARIABLES
    err,        \* the argument of the call of CheckException
    exception,  \* its first result
    kind,       \* its second result
    called,     \* whether CheckException has returned
    hasSteps,   \* TRUE: a variant whose Trace has Steps and TraceDocID
                \* (ExceptionalTx, TxRecord, Transaction); FALSE: the
                \* reduced Transaction, whose Trace has neither
    tx,         \* the transaction record
    heap,       \* the Trace objects allocated, by pointer
    handle,     \* the pointer the last NewTrace returned
    faulted,    \* a nil pointer was dereferenced: the run-time panic
    phase,      \* by pointer: "open" while the trace is being built,
                \* "final" once its outcome is set
    sealed,     \* the record is finished
    appended,   \* by pointer: how many steps were appended to the trace
    variant,    \* which of the four Collections functions is called
    cpc,        \* where the call of Collections stands
    clients,    \* the clients mongo.Connect has opened, in order
    client,     \* Collections' local: the client of this call
    colls,      \* Collections' named results: the collection handles
    buckets,    \* Collections' named results: the buckets obtained so far
    ret,        \* what Collections returned to its caller
    calls       \* how many times Collections has been called

classifierVars == << err, exception, kind, called >>
recordVars == << hasSteps, tx, heap, handle, faulted, phase, sealed, appended >>
storeVars == << variant, cpc, clients, client, colls, buckets, ret, calls >>
vars == << err, exception, kind, called,
           hasSteps, tx, heap, handle, faulted, phase, sealed, appended,
           variant, cpc, clients, client, colls, buckets, ret, calls >>

\* The nil pointer.
Nil == 0

\* A nil entry of Steps, and the step with the given number.
NilStep == [isNil |-> TRUE]
OneStep(n) == [isNil |-> FALSE, StepNum |-> n]

\* The external and per-trace status codes: failure and success.
StatusFailed == 0
StatusSuccessful == 1

\* The reference of the overflow document a detached step log is held in.
DocIDs == { "doc1" }

\* The failure signals a call frame ends with.
Signals == { NilError, NewError(MsgOutOfGas) }

(***************************************************************************)
(* NewTxRecord(): all fields zero, Traces empty.                           *)
(***************************************************************************)
NewTxRecord ==
    [StatusCode |-> 0, NumSteps |-> 0, HasException |-> FALSE, Traces |-> << >>]

\* As NewTrace, putting the new trace at the front of tx.Traces.
NewTracePrepend ==
    /\ hasSteps /\ ~faulted
    /\ Len(heap) < MaxTraces
    /\ LET trace == Len(heap) + 1 IN
         /\ heap' = Append(heap, [StatusCode |-> 0, ErrorMsg |-> << >>,
                                  ErrorCode |-> 0, Steps |-> << >>,
                                  TraceDocID |-> ""])
         /\ tx' = [tx EXCEPT !.Traces = << trace >> \o @]
         /\ handle' = trace
    /\ phase' = Append(phase, "open")
    /\ appended' = Append(appended, 0)
    /\ UNCHANGED << classifierVars, storeVars, hasSteps, faulted, sealed >>

\* As NewTrace, with the new trace's ErrorCode preset to the catch-all kind.
NewTracePresetKind ==
    /\ hasSteps /\ ~faulted
    /\ Len(heap) < MaxTraces
    /\ LET trace == Len(heap) + 1 IN
         /\ heap' = Append(heap, [StatusCode |-> 0, ErrorMsg |-> << >>,
                                  ErrorCode |-> PrecompiledCallError,
                                  Steps |-> << >>, TraceDocID |-> ""])
         /\ tx' = [tx EXCEPT !.Traces = Append(@, trace)]
         /\ handle' = trace
    /\ phase' = Append(phase, "open")
    /\ appended' = Append(appended, 0)
    /\ UNCHANGED << classifierVars, storeVars, hasSteps, faulted, sealed >>

\* As NewTrace, with Steps made with length 1 (make([]*OneStep, 1)).
NewTraceMakeOne ==
    /\ hasSteps /\ ~faulted
    /\ Len(heap) < MaxTraces
    /\ LET trace == Len(heap) + 1 IN
         /\ heap' = Append(heap, [StatusCode |-> 0, ErrorMsg |-> << >>,
                                  ErrorCode |-> 0, Steps |-> << NilStep >>,
                                  TraceDocID |-> ""])
         /\ tx' = [tx EXCEPT !.Traces = Append(@, trace)]
         /\ handle' = trace
    /\ phase' = Append(phase, "open")
    /\ appended' = Append(appended, 0)
    /\ UNCHANGED << classifierVars, storeVars, hasSteps, faulted, sealed >>

\* As NewTrace, with the new trace's TraceDocID preset to a document.
NewTracePresetDoc ==
    /\ hasSteps /\ ~faulted
    /\ Len(heap) < MaxTraces
    /\ LET trace == Len(heap) + 1 IN
         /\ heap' = Append(heap, [StatusCode |-> 0, ErrorMsg |-> << >>,
                                  ErrorCode |-> 0, Steps |-> << >>,
                                  TraceDocID |-> "doc1"])
         /\ tx' = [tx EXCEPT !.Traces = Append(@, trace)]
         /\ handle' = trace
    /\ phase' = Append(phase, "open")
    /\ appended' = Append(appended, 0)
    /\ UNCHANGED << classifierVars, storeVars, hasSteps, faulted, sealed >>

(***************************************************************************)
(* tx.NewTrace(), in the variants with Steps: a new Trace, all fields zero *)
(* and Steps empty, is appended to tx.Traces and returned.                 *)
(***************************************************************************)
NewTrace ==
    /\ hasSteps /\ ~faulted
    /\ Len(heap) < MaxTraces
    /\ LET trace == Len(heap) + 1 IN
         /\ heap' = Append(heap, [StatusCode |-> 0, ErrorMsg |-> << >>,
                                  ErrorCode |-> 0, Steps |-> << >>,
                                  TraceDocID |-> ""])
         /\ tx' = [tx EXCEPT !.Traces = Append(@, trace)]
         /\ handle' = trace
    /\ phase' = Append(phase, "open")
    /\ appended' = Append(appended, 0)
    /\ UNCHANGED << classifierVars, storeVars, hasSteps, faulted, sealed >>

(***************************************************************************)
(* tx.NewTrace() of the reduced Transaction: the Trace has no Steps and no *)
(* TraceDocID.                                                             *)
(***************************************************************************)
NewTraceReduced ==
    /\ ~hasSteps /\ ~faulted
    /\ Len(heap) < MaxTraces
    /\ LET trace == Len(heap) + 1 IN
         /\ heap' = Append(heap, [StatusCode |-> 0, ErrorMsg |-> << >>,
                                  ErrorCode |-> 0])
         /\ tx' = [tx EXCEPT !.Traces = Append(@, trace)]
         /\ handle' = trace
    /\ phase' = Append(phase, "open")
    /\ appended' = Append(appended, 0)
    /\ UNCHANGED << classifierVars, storeVars, hasSteps, faulted, sealed >>

(***************************************************************************)
(* t.ReleaseInternal(): every entry of t.Steps becomes nil.                *)
(***************************************************************************)
TraceReleaseInternal(t) ==
    [t EXCEPT !.Steps = [i \in 1..Len(@) |-> NilStep]]

(***************************************************************************)
(* t.ReleaseInternal() called on its own, through a pointer NewTrace       *)
(* returned.                                                               *)
(***************************************************************************)
ReleaseTrace(p) ==
    /\ hasSteps /\ ~faulted
    /\ heap' = [heap EXCEPT ![p] = TraceReleaseInternal(@)]
    /\ UNCHANGED << classifierVars, storeVars, hasSteps, tx, handle, faulted, phase,
                    sealed, appended >>

\* The first position of tx.Traces that holds nil; Len + 1 when none does.
FirstNil ==
    LET nils == { i \in DOMAIN tx.Traces : tx.Traces[i] = Nil } IN
    IF nils = {} THEN Len(tx.Traces) + 1
    ELSE CHOOSE i \in nils : \A j \in nils : i <= j

(***************************************************************************)
(* tx.ReleaseInternal(), in the variants with Steps: for each entry p of   *)
(* tx.Traces in order, p.ReleaseInternal() and then tx.Traces[i] = nil.    *)
(* p.ReleaseInternal() reads p.Steps, which for a nil p is a nil pointer   *)
(* dereference: the loop stops there with a panic, the entries before it   *)
(* released.                                                               *)
(***************************************************************************)
ReleaseInternal ==
    /\ hasSteps /\ ~faulted
    /\ LET done == 1..(FirstNil - 1)
           released == { tx.Traces[i] : i \in done } IN
         /\ heap' = [p \in 1..Len(heap) |->
                        IF p \in released THEN TraceReleaseInternal(heap[p])
                        ELSE heap[p]]
         /\ tx' = [tx EXCEPT !.Traces =
                        [i \in 1..Len(@) |-> IF i \in done THEN Nil ELSE @[i]]]
    /\ faulted' = (FirstNil <= Len(tx.Traces))
    /\ UNCHANGED << classifierVars, storeVars, hasSteps, handle, phase, sealed, appended >>

(***************************************************************************)
(* tx.ReleaseInternal() of the reduced Transaction: every entry of         *)
(* tx.Traces becomes nil; no entry is dereferenced.                        *)
(***************************************************************************)
ReleaseInternalReduced ==
    /\ ~hasSteps /\ ~faulted
    /\ tx' = [tx EXCEPT !.Traces = [i \in 1..Len(@) |-> Nil]]
    /\ UNCHANGED << classifierVars, storeVars, hasSteps, heap, handle, faulted, phase,
                    sealed, appended >>

(***************************************************************************)
(* The trace builder appends one step through the handle of an open trace: *)
(* the step's number is its position in Steps.  The record counts it.      *)
(***************************************************************************)
AppendStep(p) ==
    /\ hasSteps /\ ~faulted /\ ~sealed
    /\ phase[p] = "open"
    /\ Len(heap[p].Steps) < MaxSteps
    /\ heap' = [heap EXCEPT ![p].Steps = Append(@, OneStep(Len(@) + 1))]
    /\ tx' = [tx EXCEPT !.NumSteps = @ + 1]
    /\ appended' = [appended EXCEPT ![p] = @ + 1]
    /\ UNCHANGED << classifierVars, storeVars, hasSteps, handle, faulted, phase, sealed >>

(***************************************************************************)
(* The trace builder ends a frame: the classifier's message and kind, and  *)
(* the status, are set through the handle; the trace is then final.        *)
(***************************************************************************)
FinalizeTrace(p, signal) ==
    /\ ~faulted /\ ~sealed
    /\ phase[p] = "open"
    /\ LET r == CheckException(signal) IN
         heap' = [heap EXCEPT ![p].ErrorMsg = r.exception,
                              ![p].ErrorCode = r.kind,
                              ![p].StatusCode =
                                  IF signal.present THEN StatusFailed
                                  ELSE StatusSuccessful]
    /\ phase' = [phase EXCEPT ![p] = "final"]
    /\ UNCHANGED << classifierVars, storeVars, hasSteps, tx, handle, faulted, sealed,
                    appended >>

(***************************************************************************)
(* The overflow store takes the step log of a final trace: the log is      *)
(* stored as a document, Steps is emptied and TraceDocID refers to the     *)
(* document.                                                               *)
(***************************************************************************)
Detach(p, doc) ==
    /\ hasSteps /\ ~faulted /\ ~sealed
    /\ phase[p] = "final"
    /\ heap[p].TraceDocID = ""
    /\ Len(heap[p].Steps) > 0
    /\ heap' = [heap EXCEPT ![p].Steps = << >>, ![p].TraceDocID = doc]
    /\ UNCHANGED << classifierVars, storeVars, hasSteps, tx, handle, faulted, phase,
                    sealed, appended >>

(***************************************************************************)
(* The assembler finishes the record once every trace is final: the        *)
(* external status is set and HasException computed from it and from the   *)
(* kinds of the traces.                                                    *)
(***************************************************************************)
Seal(status) ==
    /\ ~faulted /\ ~sealed
    /\ \A p \in DOMAIN heap : phase[p] = "final"
    /\ \A i \in DOMAIN tx.Traces : tx.Traces[i] # Nil
    /\ tx' = [tx EXCEPT !.StatusCode = status,
                        !.HasException =
                            \/ status = StatusFailed
                            \/ \E i \in DOMAIN tx.Traces :
                                   heap[tx.Traces[i]].ErrorCode # NoException]
    /\ sealed' = TRUE
    /\ UNCHANGED << classifierVars, storeVars, hasSteps, heap, handle, faulted, phase,
                    appended >>

(***************************************************************************)
(* The call of CheckException on the argument err.                         *)
(***************************************************************************)
CallCheckException ==
    /\ ~called
    /\ exception' = CheckException(err).exception
    /\ kind' = CheckException(err).kind
    /\ called' = TRUE
    /\ UNCHANGED << err, recordVars, storeVars >>

(***************************************************************************)
(* The arguments CheckException is called with: nil, and the errors whose  *)
(* text is a known message, or a pattern's words, or nothing, followed by  *)
(* any detail of up to MaxDetail characters.                               *)
(***************************************************************************)
DetailChars == { " ", "a", LineBreak }

Details == UNION { [1..n -> DetailChars] : n \in 0..MaxDetail }

WithoutLast(s) == SubSeq(s, 1, Len(s) - 1)

ExactTexts ==
    { MsgExecutionReverted, MsgCodeStoreOutOfGas, MsgOutOfGas, MsgDepth,
      MsgInsufficientBalance, MsgWriteProtection, MsgReturnDataOutOfBounds,
      MsgContractAddressCollision, MsgMaxCodeSizeExceeded, MsgGasUintOverflow,
      MsgEmptyCallCode }

PatternWords ==
    { WithoutLast(ReStackUnderflow), WithoutLast(ReStackLimit),
      WithoutLast(ReInvalidJump), WithoutLast(ReInvalidOpcode) }

Texts == { b \o d : b \in ExactTexts \cup PatternWords \cup { << >> },
                    d \in Details }

Errors == { NilError } \cup { NewError(t) : t \in Texts }

(***************************************************************************)
(* Collections(): the connection to the database and the handles it        *)
(* returns.  The four functions differ in the collections and buckets they *)
(* open.                                                                   *)
(***************************************************************************)
\* Most calls of Collections in one run.
MaxCalls == 3

Variants == { "ExceptionalTx", "TxRecord", "Transaction", "Reduced" }

\* The names given to db.Collection, in the order of the results.
CollectionNames(v) ==
    IF v = "ExceptionalTx"
    THEN << "exceptions", "contract_code", "transactions" >>
    ELSE IF v = "TxRecord" THEN << "exceptions" >>
    ELSE IF v = "Transaction" THEN << "transactions", "contract_code" >>
    ELSE << "transactions" >>

\* The names given to gridfs.NewBucket, in the order of the results.
BucketNames(v) ==
    IF v = "ExceptionalTx" THEN << "exception_bucket" >>
    ELSE IF v = "TxRecord" THEN << "exception_bucket" >>
    ELSE IF v = "Transaction" THEN << "transaction_bucket", "input_bucket" >>
    ELSE << >>

\* The nil error, and the errors of mongo.Connect and gridfs.NewBucket.
NilErr == "<nil>"
ConnectErrors == { "connect: server selection timeout", "connect: bad uri" }
BucketErrors == { "bucket: invalid options", "bucket: write concern" }

\* A nil handle, and the handle of collection or bucket n of client c.
NilHandle == [isNil |-> TRUE]
Handle(c, n) == [isNil |-> FALSE, client |-> c, name |-> n]

\* The results with every handle nil and the error e.
AllNil(e) ==
    [colls |-> [k \in 1..Len(CollectionNames(variant)) |-> NilHandle],
     buckets |-> [k \in 1..Len(BucketNames(variant)) |-> NilHandle],
     err |-> e]

\* ret while the call has not returned.
NoReturn == [colls |-> << >>, buckets |-> << >>, err |-> NilErr]

(***************************************************************************)
(* A call of Collections begins: the named results are nil.                *)
(***************************************************************************)
CallCollections ==
    /\ cpc \in { "idle", "returned" }
    /\ calls < MaxCalls
    /\ calls' = calls + 1
    /\ cpc' = "connect"
    /\ client' = Nil
    /\ colls' = [k \in 1..Len(CollectionNames(variant)) |-> NilHandle]
    /\ buckets' = << >>
    /\ ret' = NoReturn
    /\ UNCHANGED << classifierVars, recordVars, variant, clients >>

(***************************************************************************)
(* client, err := mongo.Connect(...): with an error, Collections returns   *)
(* nil for every handle and the error.                                     *)
(***************************************************************************)
Connect(outcome) ==
    /\ cpc = "connect"
    /\ IF outcome = NilErr
       THEN /\ clients' = Append(clients, "open")
            /\ client' = Len(clients) + 1
            /\ cpc' = "collections"
            /\ ret' = ret
       ELSE /\ ret' = AllNil(outcome)
            /\ cpc' = "returned"
            /\ UNCHANGED << clients, client >>
    /\ UNCHANGED << classifierVars, recordVars, variant, colls, buckets, calls >>

(***************************************************************************)
(* db := client.Database(...) and the db.Collection(...) assignments:      *)
(* they do not fail.                                                       *)
(***************************************************************************)
OpenCollections ==
    /\ cpc = "collections"
    /\ colls' = [k \in 1..Len(CollectionNames(variant)) |->
                    Handle(client, CollectionNames(variant)[k])]
    /\ cpc' = IF Len(BucketNames(variant)) = 0 THEN "return" ELSE "buckets"
    /\ UNCHANGED << classifierVars, recordVars, variant, clients, client,
                    buckets, ret, calls >>

\* As NewBucket, leaving with a bare return: the named results, with the
\* handles obtained so far, go to the caller.
NewBucketBareReturn(outcome) ==
    /\ cpc = "buckets"
    /\ LET next == BucketNames(variant)[Len(buckets) + 1] IN
       IF outcome = NilErr
       THEN /\ buckets' = Append(buckets, Handle(client, next))
            /\ cpc' = IF Len(buckets) + 1 = Len(BucketNames(variant))
                      THEN "return" ELSE "buckets"
            /\ ret' = ret
       ELSE /\ ret' = [colls |-> colls,
                       buckets |-> [k \in 1..Len(BucketNames(variant)) |->
                                       IF k <= Len(buckets) THEN buckets[k]
                                       ELSE NilHandle],
                       err |-> outcome]
            /\ cpc' = "returned"
            /\ buckets' = buckets
    /\ UNCHANGED << classifierVars, recordVars, variant, clients, client,
                    colls, calls >>

(***************************************************************************)
(* bucket, err = gridfs.NewBucket(db, ...) for the next bucket: with an    *)
(* error, Collections returns nil for every handle and the error.          *)
(***************************************************************************)
NewBucket(outcome) ==
    /\ cpc = "buckets"
    /\ LET next == BucketNames(variant)[Len(buckets) + 1] IN
       IF outcome = NilErr
       THEN /\ buckets' = Append(buckets, Handle(client, next))
            /\ cpc' = IF Len(buckets) + 1 = Len(BucketNames(variant))
                      THEN "return" ELSE "buckets"
            /\ ret' = ret
       ELSE /\ ret' = AllNil(outcome)
            /\ cpc' = "returned"
            /\ buckets' = buckets
    /\ UNCHANGED << classifierVars, recordVars, variant, clients, client,
                    colls, calls >>

(***************************************************************************)
(* The last return: every handle, and the nil error.  (In the Reduced      *)
(* function two tests of err stand before it; err is nil there.)           *)
(***************************************************************************)
ReturnHandles ==
    /\ cpc = "return"
    /\ ret' = [colls |-> colls, buckets |-> buckets, err |-> NilErr]
    /\ cpc' = "returned"
    /\ UNCHANGED << classifierVars, recordVars, variant, clients, client,
                    colls, buckets, calls >>

(***************************************************************************)
(* Specifications.                                                         *)
(***************************************************************************)
InitRecord ==
    /\ tx = NewTxRecord
    /\ heap = << >>
    /\ handle = Nil
    /\ faulted = FALSE
    /\ phase = << >>
    /\ sealed = FALSE
    /\ appended = << >>

InitStore ==
    /\ cpc = "idle"
    /\ clients = << >>
    /\ client = Nil
    /\ colls = << >>
    /\ buckets = << >>
    /\ ret = NoReturn
    /\ calls = 0

InitResults ==
    /\ exception = << >>
    /\ kind = NoException
    /\ called = FALSE

\* The record and its traces; CheckException is called as frames end.
Init ==
    /\ err = NilError
    /\ InitResults
    /\ hasSteps \in BOOLEAN
    /\ InitRecord
    /\ variant = "ExceptionalTx"
    /\ InitStore

Next ==
    \/ NewTrace
    \/ NewTraceReduced
    \/ ReleaseInternal
    \/ ReleaseInternalReduced
    \/ \E p \in DOMAIN heap : ReleaseTrace(p)
    \/ \E p \in DOMAIN heap : AppendStep(p)
    \/ \E p \in DOMAIN heap : \E signal \in Signals : FinalizeTrace(p, signal)
    \/ \E p \in DOMAIN heap : \E doc \in DocIDs : Detach(p, doc)
    \/ \E status \in { StatusFailed, StatusSuccessful } : Seal(status)

Spec == Init /\ [][Next]_vars

\* CheckException alone, on every argument of Errors.
InitClassify ==
    /\ err \in Errors
    /\ InitResults
    /\ hasSteps = TRUE
    /\ InitRecord
    /\ variant = "ExceptionalTx"
    /\ InitStore

NextClassify == CallCheckException

SpecClassify == InitClassify /\ [][NextClassify]_vars

\* Collections alone, in each of its four forms.
InitCollections ==
    /\ err = NilError
    /\ InitResults
    /\ hasSteps = TRUE
    /\ InitRecord
    /\ variant \in Variants
    /\ InitStore

NextCollections ==
    \/ CallCollections
    \/ \E outcome \in { NilErr } \cup ConnectErrors : Connect(outcome)
    \/ OpenCollections
    \/ \E outcome \in { NilErr } \cup BucketErrors : NewBucket(outcome)
    \/ ReturnHandles

SpecCollections == InitCollections /\ [][NextCollections]_vars

(***************************************************************************)
(* Properties of CheckException, checked under SpecClassify.               *)
(***************************************************************************)
\* Each exact message with the kind it is paired with.
ExactPairs ==
    { << MsgExecutionReverted, ExplicitRevert >>,
      << MsgCodeStoreOutOfGas, DepositOutOfGas >>,
      << MsgOutOfGas, RunOutOfGas >>,
      << MsgDepth, CallStackOverflow >>,
      << MsgInsufficientBalance, InsufficientBalance >>,
      << MsgWriteProtection, WritePermissionViolation >>,
      << MsgReturnDataOutOfBounds, ReturnDataOutOfBound >>,
      << MsgContractAddressCollision, ContractAddressCollision >>,
      << MsgMaxCodeSizeExceeded, MaxCodeSizeExceeded >>,
      << MsgGasUintOverflow, GasUintOverflow >>,
      << MsgEmptyCallCode, EmptyCode >> }

\* Each pattern's words, without the space that follows them in the
\* pattern, with the kind of the pattern.
PatternPairs ==
    { << WithoutLast(ReStackUnderflow), DataStackUnderflow >>,
      << WithoutLast(ReStackLimit), DataStackOverflow >>,
      << WithoutLast(ReInvalidJump), InvalidJumpDestination >>,
      << WithoutLast(ReInvalidOpcode), InvalidInstruction >> }

\* s begins with prefix.
BeginsWith(s, prefix) ==
    /\ Len(s) >= Len(prefix)
    /\ SubSeq(s, 1, Len(prefix)) = prefix

\* s is words, one space, and a detail of one or more characters none of
\* which is a line break.
WordsSpaceDetail(s, words) ==
    /\ BeginsWith(s, words \o << " " >>)
    /\ Len(s) > Len(words) + 1
    /\ \A i \in (Len(words) + 2)..Len(s) : s[i] # "\n"

\* C1: called with one of the eleven exact messages, CheckException returns
\* that message unchanged and the kind paired with it.
C1_ExactMessages ==
    (called /\ err.present) =>
        \A pair \in ExactPairs :
            err.text = pair[1] => (exception = pair[1] /\ kind = pair[2])

C1_Witness ==
    /\ called
    /\ err = NewError(MsgEmptyCallCode)
    /\ exception = MsgEmptyCallCode
    /\ kind = EmptyCode

\* C2: for a nil error CheckException returns the empty message and
\* NoException, and it returns NoException for a nil error only.
C2_NilIsNoException ==
    called =>
        /\ ~err.present => (exception = << >> /\ kind = NoException)
        /\ kind = NoException => ~err.present

C2_Witness ==
    /\ called
    /\ ~err.present
    /\ exception = << >>
    /\ kind = NoException

\* C3: for every non-nil error CheckException returns one kind of
\* ExplicitRevert..EmptyCode, and PrecompiledCallError when the text equals
\* no exact message and matches no pattern.
C3_Total ==
    (called /\ err.present) =>
        /\ kind \in ExplicitRevert..EmptyCode
        /\ ( /\ \A pair \in ExactPairs : err.text # pair[1]
             /\ \A pair \in PatternPairs : ~WordsSpaceDetail(err.text, pair[1]) )
           => kind = PrecompiledCallError

C3_Witness ==
    /\ called
    /\ err = NewError(ReStackUnderflow)
    /\ kind = PrecompiledCallError

\* C4 as stated: the kind is a pattern's kind if and only if the text
\* begins with the pattern's words, whatever follows them.
C4_PrefixComparison ==
    (called /\ err.present) =>
        \A pair \in PatternPairs :
            kind = pair[2] <=> BeginsWith(err.text, pair[1])

\* C4, amended: the kind is a pattern's kind if and only if the text is the
\* pattern's words, one space, and a detail of one or more characters with
\* no line break; a text that begins with the words and is not of that
\* form is classified PrecompiledCallError.
C4_PatternForm ==
    (called /\ err.present) =>
        \A pair \in PatternPairs :
            /\ kind = pair[2] <=> WordsSpaceDetail(err.text, pair[1])
            /\ (BeginsWith(err.text, pair[1])
                    /\ ~WordsSpaceDetail(err.text, pair[1]))
               => kind = PrecompiledCallError

C4_Witness ==
    /\ called
    /\ err = NewError(ReStackUnderflow \o << "a" >>)
    /\ kind = DataStackUnderflow

\* The chain of the specification: the eleven exact rules first, in its
\* order, and the four pattern rules after them.
ExactFirstKind(text) ==
    IF text = MsgExecutionReverted THEN ExplicitRevert
    ELSE IF text = MsgCodeStoreOutOfGas THEN DepositOutOfGas
    ELSE IF text = MsgOutOfGas THEN RunOutOfGas
    ELSE IF text = MsgDepth THEN CallStackOverflow
    ELSE IF text = MsgInsufficientBalance THEN InsufficientBalance
    ELSE IF text = MsgWriteProtection THEN WritePermissionViolation
    ELSE IF text = MsgReturnDataOutOfBounds THEN ReturnDataOutOfBound
    ELSE IF text = MsgContractAddressCollision THEN ContractAddressCollision
    ELSE IF text = MsgMaxCodeSizeExceeded THEN MaxCodeSizeExceeded
    ELSE IF text = MsgGasUintOverflow THEN GasUintOverflow
    ELSE IF text = MsgEmptyCallCode THEN EmptyCode
    ELSE IF Len(FindAllString(ReStackUnderflow, text)) > 0
         THEN DataStackUnderflow
    ELSE IF Len(FindAllString(ReStackLimit, text)) > 0
         THEN DataStackOverflow
    ELSE IF Len(FindAllString(ReInvalidJump, text)) > 0
         THEN InvalidJumpDestination
    ELSE IF Len(FindAllString(ReInvalidOpcode, text)) > 0
         THEN InvalidInstruction
    ELSE PrecompiledCallError

\* Each pattern's literal part with the kind of the pattern.
PatternRules ==
    { << ReStackUnderflow, DataStackUnderflow >>,
      << ReStackLimit, DataStackOverflow >>,
      << ReInvalidJump, InvalidJumpDestination >>,
      << ReInvalidOpcode, InvalidInstruction >> }

\* The rules a text satisfies, each named by its kind.
RulesSatisfied(text) ==
    { pair[2] : pair \in { q \in ExactPairs : text = q[1] } }
    \cup { pair[2] : pair \in
             { q \in PatternRules : Len(FindAllString(q[1], text)) > 0 } }

\* C5: CheckException returns the kind the exact-rules-first chain gives,
\* and no text satisfies two rules.
C5_OrderImmaterial ==
    (called /\ err.present) =>
        /\ kind = ExactFirstKind(err.text)
        /\ Cardinality(RulesSatisfied(err.text)) <= 1

C5_Witness ==
    /\ called
    /\ err = NewError(MsgInsufficientBalance)
    /\ kind = InsufficientBalance
    /\ RulesSatisfied(err.text) = { InsufficientBalance }

\* C6 as stated: for every argument the returned message is non-empty if
\* and only if the returned kind is not NoException.
C6_MessageIffKind ==
    called => (exception # << >> <=> kind # NoException)

\* C6, amended: the kind is not NoException exactly for a non-nil error and
\* the message is the error's text, so the message is non-empty exactly
\* for a non-nil error with a non-empty text; a non-nil error with the
\* empty text gives the empty message and PrecompiledCallError.
C6_MessageIsText ==
    called =>
        /\ kind # NoException <=> err.present
        /\ exception # << >> <=> (err.present /\ err.text # << >>)
        /\ err.text # << >> => (exception # << >> <=> kind # NoException)
        /\ (err.present /\ err.text = << >>)
               => (exception = << >> /\ kind = PrecompiledCallError)

C6_Witness ==
    /\ called
    /\ err = NewError(<< >>)
    /\ exception = << >>
    /\ kind = PrecompiledCallError

(***************************************************************************)
(* Properties of the record and its traces, checked under Spec.            *)
(***************************************************************************)
\* Some trace the record holds has a kind other than NoException.
SomeHeldTraceFailed ==
    \E i \in DOMAIN tx.Traces :
        /\ tx.Traces[i] # Nil
        /\ heap[tx.Traces[i]].ErrorCode # NoException

\* Some trace allocated for the record has a kind other than NoException.
SomeTraceFailed ==
    \E p \in DOMAIN heap : heap[p].ErrorCode # NoException

\* C7 as stated: on a finished record HasException is true if and only if
\* the external status is the failure status or some Trace in Traces has
\* an ErrorCode other than NoException, and NewTrace and ReleaseInternal
\* keep it so.
C7_HasExceptionRelation ==
    sealed =>
        (tx.HasException <=>
            (tx.StatusCode = StatusFailed \/ SomeHeldTraceFailed))

\* C7, amended: on a finished record HasException is true if and only if
\* the external status is the failure status or some trace appended to the
\* record has an ErrorCode other than NoException.  NewTrace keeps this.
\* ReleaseInternal leaves HasException as it is and makes the entries of
\* Traces nil, so the relation to the entries of Traces holds as long as no
\* entry has been released.
C7_HasExceptionOfAppended ==
    sealed =>
        /\ tx.HasException <=>
               (tx.StatusCode = StatusFailed \/ SomeTraceFailed)
        /\ (\A i \in DOMAIN tx.Traces : tx.Traces[i] # Nil)
               => (tx.HasException <=>
                      (tx.StatusCode = StatusFailed \/ SomeHeldTraceFailed))

C7_Witness ==
    /\ sealed
    /\ tx.StatusCode = StatusSuccessful
    /\ tx.HasException
    /\ Len(tx.Traces) > 0
    /\ \A i \in DOMAIN tx.Traces : tx.Traces[i] = Nil

\* A step of NewTrace: the one operation that allocates a Trace.
IsNewTraceStep == Len(heap') = Len(heap) + 1

\* What a step of NewTrace does to the record.
NewTraceAppendsFresh ==
    LET last == Len(tx.Traces) + 1 IN
    /\ Len(tx'.Traces) = last
    /\ \A i \in DOMAIN tx.Traces : tx'.Traces[i] = tx.Traces[i]
    /\ \A p \in DOMAIN heap : heap'[p] = heap[p]
    /\ tx'.Traces[last] # Nil
    /\ tx'.Traces[last] \notin DOMAIN heap
    /\ handle' = tx'.Traces[last]
    /\ heap'[handle'].ErrorCode = NoException
    /\ hasSteps => /\ Len(heap'[handle'].Steps) = 0
                   /\ heap'[handle'].TraceDocID = ""

\* C8: the record of NewTxRecord has no traces; each NewTrace appends one
\* fresh trace at the end, returns the pointer to it and leaves the earlier
\* entries and traces as they are; so after k calls Traces has k entries,
\* the i-th of them the trace of the i-th call (or nil once released).
C8_NewTraceAppends ==
    /\ tx.Traces = << >>
    /\ [][IsNewTraceStep => NewTraceAppendsFresh]_vars
    /\ [](/\ Len(tx.Traces) = Len(heap)
          /\ \A i \in DOMAIN tx.Traces : tx.Traces[i] \in { Nil, i })

C8_Witness ==
    /\ hasSteps
    /\ Len(tx.Traces) = 2
    /\ tx.Traces[1] = 1
    /\ handle = tx.Traces[2]
    /\ handle # Nil
    /\ Len(heap[1].Steps) > 0
    /\ Len(heap[2].Steps) = 0

\* C9 as stated: in every reachable state the Steps of a trace to which N
\* steps were appended are N steps with the StepNum values 1..N in order.
C9_StepNumsExact ==
    hasSteps =>
        \A p \in DOMAIN heap :
            /\ Len(heap[p].Steps) = appended[p]
            /\ \A i \in 1..Len(heap[p].Steps) :
                   IF heap[p].Steps[i].isNil THEN FALSE
                   ELSE heap[p].Steps[i].StepNum = i

\* C9, amended: a trace to which N steps were appended and whose log is
\* held inline has N entries in Steps, and every entry that is not nil is
\* the step whose StepNum is its position; ReleaseInternal makes entries
\* nil and changes neither their number nor a StepNum.
C9_StepNumsOfHeldSteps ==
    hasSteps =>
        \A p \in DOMAIN heap :
            /\ heap[p].TraceDocID = "" => Len(heap[p].Steps) = appended[p]
            /\ \A i \in 1..Len(heap[p].Steps) :
                   \/ heap[p].Steps[i].isNil
                   \/ heap[p].Steps[i].StepNum = i

C9_Witness ==
    /\ hasSteps
    /\ \E p \in DOMAIN heap :
           /\ appended[p] = 2
           /\ Len(heap[p].Steps) = 2
           /\ ~heap[p].Steps[1].isNil
           /\ heap[p].Steps[1].StepNum = 1
           /\ ~heap[p].Steps[2].isNil
           /\ heap[p].Steps[2].StepNum = 2

\* C10: no trace has both a non-empty TraceDocID and a non-empty Steps.
C10_InlineOrByReference ==
    hasSteps =>
        \A p \in DOMAIN heap :
            ~(heap[p].TraceDocID # "" /\ Len(heap[p].Steps) > 0)

C10_Witness ==
    /\ hasSteps
    /\ \E p, q \in DOMAIN heap :
           /\ heap[p].TraceDocID # ""
           /\ Len(heap[p].Steps) = 0
           /\ appended[p] > 0
           /\ heap[q].TraceDocID = ""
           /\ Len(heap[q].Steps) > 0

(***************************************************************************)
(* Properties of Collections, checked under SpecCollections.               *)
(***************************************************************************)
\* Every handle returned is a handle; every handle returned is nil.
AllHandles ==
    /\ \A k \in DOMAIN ret.colls : ~ret.colls[k].isNil
    /\ \A k \in DOMAIN ret.buckets : ~ret.buckets[k].isNil

NoHandles ==
    /\ \A k \in DOMAIN ret.colls : ret.colls[k].isNil
    /\ \A k \in DOMAIN ret.buckets : ret.buckets[k].isNil

\* C11: Collections returns every collection and bucket handle non-nil
\* with the nil error, or every handle nil with a non-nil error; after a
\* failed Connect or NewBucket no handle goes to the caller.
C11_AllOrNothing ==
    cpc = "returned" =>
        /\ Len(ret.colls) = Len(CollectionNames(variant))
        /\ Len(ret.buckets) = Len(BucketNames(variant))
        /\ \/ (AllHandles /\ ret.err = NilErr)
           \/ (NoHandles /\ ret.err # NilErr)
        /\ ret.err # NilErr => NoHandles

\* A second NewBucket has failed after collections and a bucket were
\* obtained in the same call.
C11_Witness ==
    /\ cpc = "returned"
    /\ variant = "Transaction"
    /\ ret.err \in BucketErrors
    /\ Len(buckets) = 1
    /\ ~colls[1].isNil
    /\ NoHandles

(***************************************************************************)
(* Properties of ReleaseInternal, checked under Spec.                      *)
(***************************************************************************)
\* A step of tx.ReleaseInternal() that does something: an entry of
\* tx.Traces becomes nil, or the call dereferences nil.
IsReleaseInternalStep ==
    \/ faulted' # faulted
    \/ \E i \in DOMAIN tx.Traces : tx.Traces[i] # Nil /\ tx'.Traces[i] = Nil

\* The scalar fields of the record and of every trace are as before.
ScalarsUnchanged ==
    /\ tx'.StatusCode = tx.StatusCode
    /\ tx'.NumSteps = tx.NumSteps
    /\ tx'.HasException = tx.HasException
    /\ Len(heap') = Len(heap)
    /\ \A p \in DOMAIN heap :
           /\ heap'[p].StatusCode = heap[p].StatusCode
           /\ heap'[p].ErrorMsg = heap[p].ErrorMsg
           /\ heap'[p].ErrorCode = heap[p].ErrorCode
           /\ hasSteps => heap'[p].TraceDocID = heap[p].TraceDocID

\* Traces keeps its length and every entry is nil; the Steps of every
\* trace that was held keep their number and every one is nil.
ReferencesCleared ==
    /\ Len(tx'.Traces) = Len(tx.Traces)
    /\ \A i \in DOMAIN tx.Traces : tx'.Traces[i] = Nil
    /\ \A i \in DOMAIN tx.Traces :
           (hasSteps /\ tx.Traces[i] # Nil) =>
               /\ Len(heap'[tx.Traces[i]].Steps) = Len(heap[tx.Traces[i]].Steps)
               /\ \A j \in 1..Len(heap[tx.Traces[i]].Steps) :
                      heap'[tx.Traces[i]].Steps[j].isNil

\* C12: after ReleaseInternal the Traces sequence has its length of before
\* and every entry nil, every trace that was held has Steps of unchanged
\* length with every entry nil, and the scalar fields of the record and of
\* the traces are unchanged.
C12_ReleaseClearsOnly ==
    [][IsReleaseInternalStep => (ReferencesCleared /\ ScalarsUnchanged)]_vars

\* What holds of C12: a call of ReleaseInternal that returns has cleared
\* the references and nothing else.
ReleaseThatReturnsClearsOnly ==
    [][(IsReleaseInternalStep /\ ~faulted')
           => (ReferencesCleared /\ ScalarsUnchanged)]_vars

\* A call of ReleaseInternal that panics changes no scalar field either.
ReleaseThatPanicsKeepsScalars ==
    [][(IsReleaseInternalStep /\ faulted') => ScalarsUnchanged]_vars

\* C13: ReleaseInternal, called any number of times and between calls of
\* NewTrace, never faults: no call dereferences a nil entry of Traces, in
\* the variants with Steps as in the one without.
C13_ReleaseNeverFaults == ~faulted

\* What holds of C13: the reduced Transaction never faults, and a variant
\* with Steps faults only through a nil entry of Traces.
FaultsOnlyOnNilEntry ==
    faulted => (hasSteps /\ \E i \in DOMAIN tx.Traces : tx.Traces[i] = Nil)

=============================================================================
